---- MODULE Spec2Model ----
(***************************************************************************)
(* paip: a command-line tool that forwards text to the Gemini API.         *)
(* This module models a run of main (src/main.rs): config::load and        *)
(* init_default (src/config.rs), resolve_prompt, read, assemble, and the   *)
(* client of src/llm.rs (LlmClient::new, the request builder,              *)
(* send_gemini_request).                                                   *)
(*                                                                         *)
(* Conventions                                                             *)
(*   Option<T>      None == [some |-> FALSE], Some(x) == [some |-> TRUE,   *)
(*                  val |-> x]                                             *)
(*   Result<T>      ROk(x) == [ok |-> x], RErr(e) == [err |-> e]           *)
(*   anyhow errors  records whose msg field is the literal text of the     *)
(*                  format string and whose other fields are its arguments *)
(*   JSON values    one-field records, the field name is the JSON type     *)
(*   answer texts   sequences of one-character strings, so that trimming   *)
(*                  is computed character by character                     *)
(***************************************************************************)
EXTENDS Integers, Sequences, FiniteSets, TLC

(* ------------------------------ bounds --------------------------------- *)

\* longest answer text the provider returns in a single-part answer
MaxTextLen == 3

(* ------------------------- Option and Result --------------------------- *)

None == [some |-> FALSE]

Some(x) == [some |-> TRUE, val |-> x]

ROk(x) == [ok |-> x]

RErr(e) == [err |-> e]

IsOk(r) == "ok" \in DOMAIN r

IsErr(r) == "err" \in DOMAIN r

\* Result of an operation that has not returned yet
Pending == [pending |-> TRUE]

IsPending(r) == "pending" \in DOMAIN r

(* ------------------------------- JSON ---------------------------------- *)

JNull == [null |-> TRUE]

JNum(n) == [num |-> n]

JStr(s) == [str |-> s]

JArr(s) == [arr |-> s]

JObj(f) == [obj |-> f]

IsNull(v) == "null" \in DOMAIN v

IsNum(v) == "num" \in DOMAIN v

IsStr(v) == "str" \in DOMAIN v

IsArr(v) == "arr" \in DOMAIN v

IsObj(v) == "obj" \in DOMAIN v

\* the object with no members
EmptyObj == [k \in {} |-> JNull]

(* ----------------------------- config.rs ------------------------------- *)

\* pub const VERSION: u32 = 1
VERSION == 1

\* the placeholder credential written by --init-config
PlaceholderKey == "YOUR_GEMINI_API_KEY"

Providers == {"gemini", "unknown"}

Keys == {"", PlaceholderKey, "k"}

\* struct GeminiConfig: every combination of set / unset optional fields
GeminiConfigs ==
    [ key               : Keys,
      model             : {"m"},
      temperature       : {None, Some(10)},
      top_p             : {None, Some(9)},
      top_k             : {None, Some(40)},
      max_output_tokens : {None, Some(256)},
      thinking_budget   : {None, Some(100)},
      thinking_level    : {None, Some("high")} ]

\* Config::prompt: the name -> template table
PromptTables == { "sum" :> <<"Summarize the following.">> }

\* struct Config
Configs ==
    [ version  : {VERSION},
      provider : Providers,
      timeout  : {1000},
      gemini   : {None} \cup { Some(g) : g \in GeminiConfigs },
      prompt   : PromptTables ]

(* --------------------- llm.rs: client construction --------------------- *)

\* LlmProvider::as_str
ProviderAsStr(p) == IF p = "Gemini" THEN "gemini" ELSE "?"

\* LlmClient::new without the api-key check (a client built with any key)
LlmClientNewNoKeyCheck(cfg, v, built) ==
    IF cfg.provider # "gemini"
    THEN RErr([msg |-> "Unsupported LLM provider: ", arg |-> cfg.provider])
    ELSE IF ~cfg.gemini.some
    THEN RErr([msg |-> "Gemini configuration not found for provider 'gemini'"])
    ELSE IF ~built
    THEN RErr([msg |-> "builder error"])
    ELSE ROk([provider |-> "Gemini", api_key |-> cfg.gemini.val.key,
              config |-> cfg, verbose |-> v])

\* LlmClient::new(config, verbose).  built is the outcome of
\* Client::builder().timeout(..).build(), which the HTTP stack decides.
LlmClientNew(cfg, v, built) ==
    IF cfg.provider # "gemini"
    THEN RErr([msg |-> "Unsupported LLM provider: ", arg |-> cfg.provider])
    ELSE IF ~cfg.gemini.some
    THEN RErr([msg |-> "Gemini configuration not found for provider 'gemini'"])
    ELSE LET api_key == cfg.gemini.val.key IN
         IF api_key = "" \/ api_key = PlaceholderKey
         THEN RErr([msg |-> "API key is not configured for provider: ",
                    arg |-> ProviderAsStr("Gemini")])
         ELSE IF ~built
         THEN RErr([msg |-> "builder error"])
         ELSE ROk([provider |-> "Gemini", api_key |-> api_key,
                   config |-> cfg, verbose |-> v])

(* ----------------------- llm.rs: request builder ----------------------- *)

\* From<&GeminiConfig> that copies both thinking fields
ApiGenerationConfigFromBoth(gc) ==
    [ temperature       |-> gc.temperature,
      top_p             |-> gc.top_p,
      top_k             |-> gc.top_k,
      max_output_tokens |-> gc.max_output_tokens,
      thinking_config   |->
          IF gc.thinking_level.some \/ gc.thinking_budget.some
          THEN Some([thinking_level  |-> gc.thinking_level,
                     thinking_budget |-> gc.thinking_budget])
          ELSE None ]

\* impl From<&GeminiConfig> for ApiGenerationConfig
ApiGenerationConfigFrom(gc) ==
    [ temperature       |-> gc.temperature,
      top_p             |-> gc.top_p,
      top_k             |-> gc.top_k,
      max_output_tokens |-> gc.max_output_tokens,
      thinking_config   |->
          IF gc.thinking_level.some
          THEN Some([thinking_level  |-> Some(gc.thinking_level.val),
                     thinking_budget |-> None])
          ELSE IF gc.thinking_budget.some
          THEN Some([thinking_budget |-> Some(gc.thinking_budget.val),
                     thinking_level  |-> None])
          ELSE None ]

\* the RequestBody value of send_gemini_request:
\* generation_config is self.config.gemini.as_ref().map(ApiGenerationConfig::from)
BuildRequestBody(cfg, prompt) ==
    [ contents          |-> << [parts |-> << [text |-> prompt] >>] >>,
      generation_config |-> IF cfg.gemini.some
                            THEN Some(ApiGenerationConfigFrom(cfg.gemini.val))
                            ELSE None ]

\* the url of send_gemini_request: format!(".../models/{}:generateContent?key={}")
BuildUrl(model, api_key) ==
    [ base  |-> "https://generativelanguage.googleapis.com/v1beta/models/",
      model |-> model,
      verb  |-> ":generateContent",
      key   |-> api_key ]

(* --------------- serde Serialize (skip_serializing_if) ----------------- *)

\* a member "name": value that is skipped when the Option is None
OptMember(name, present, value) ==
    IF present THEN name :> value ELSE EmptyObj

SerThinkingConfig(tc) ==
    JObj(OptMember("thinkingBudget", tc.thinking_budget.some,
                   IF tc.thinking_budget.some THEN JNum(tc.thinking_budget.val) ELSE JNull)
         @@ OptMember("thinkingLevel", tc.thinking_level.some,
                      IF tc.thinking_level.some THEN JStr(tc.thinking_level.val) ELSE JNull))

SerGenerationConfig(gc) ==
    JObj(OptMember("temperature", gc.temperature.some,
                   IF gc.temperature.some THEN JNum(gc.temperature.val) ELSE JNull)
         @@ OptMember("topP", gc.top_p.some,
                      IF gc.top_p.some THEN JNum(gc.top_p.val) ELSE JNull)
         @@ OptMember("topK", gc.top_k.some,
                      IF gc.top_k.some THEN JNum(gc.top_k.val) ELSE JNull)
         @@ OptMember("maxOutputTokens", gc.max_output_tokens.some,
                      IF gc.max_output_tokens.some THEN JNum(gc.max_output_tokens.val) ELSE JNull)
         @@ OptMember("thinkingConfig", gc.thinking_config.some,
                      IF gc.thinking_config.some
                      THEN SerThinkingConfig(gc.thinking_config.val) ELSE JNull))

SerPart(p) == JObj("text" :> JStr(p.text))

SerContent(c) == JObj("parts" :> JArr([i \in 1..Len(c.parts) |-> SerPart(c.parts[i])]))

\* serde_json serialization of RequestBody
SerRequestBody(rb) ==
    JObj(("contents" :> JArr([i \in 1..Len(rb.contents) |-> SerContent(rb.contents[i])]))
         @@ OptMember("generationConfig", rb.generation_config.some,
                      IF rb.generation_config.some
                      THEN SerGenerationConfig(rb.generation_config.val) ELSE JNull))

(* ------------------ serde Deserialize of the response ------------------ *)

\* largest value of ApiError.code: u16
U16Max == 65535

\* a derived struct visitor accepts a JSON object, or a JSON array holding
\* exactly the fields in declaration order
StructShape(v, names) == IsObj(v) \/ (IsArr(v) /\ Len(v.arr) = Len(names))

HasField(v, names, i) == IF IsObj(v) THEN names[i] \in DOMAIN v.obj ELSE TRUE

GetField(v, names, i) == IF IsObj(v) THEN v.obj[names[i]] ELSE v.arr[i]

\* a field of type T is required: a missing member is an error
IsMissing(v, names, i) == ~HasField(v, names, i)

\* a field of type Option<T> is None when the member is missing or null
IsNoneField(v, names, i) ==
    ~HasField(v, names, i) \/ IsNull(GetField(v, names, i))

DeString(v) == IF IsStr(v) THEN ROk(v.str) ELSE RErr("invalid type")

DeU16(v) == IF IsNum(v) /\ v.num \in 0..U16Max THEN ROk(v.num) ELSE RErr("invalid value")

\* struct Part { text: String }
PartNames == <<"text">>

DePart(v) ==
    IF ~StructShape(v, PartNames) THEN RErr("invalid type")
    ELSE IF IsMissing(v, PartNames, 1) THEN RErr("missing field")
    ELSE LET t == DeString(GetField(v, PartNames, 1)) IN
         IF IsOk(t) THEN ROk([text |-> t.ok]) ELSE t

\* Vec<Part>
DeParts(v) ==
    IF ~IsArr(v) THEN RErr("invalid type")
    ELSE IF \E i \in 1..Len(v.arr) : ~IsOk(DePart(v.arr[i])) THEN RErr("invalid element")
    ELSE ROk([i \in 1..Len(v.arr) |-> DePart(v.arr[i]).ok])

\* struct Content { parts: Vec<Part> }
ContentNames == <<"parts">>

DeContent(v) ==
    IF ~StructShape(v, ContentNames) THEN RErr("invalid type")
    ELSE IF IsMissing(v, ContentNames, 1) THEN RErr("missing field")
    ELSE LET p == DeParts(GetField(v, ContentNames, 1)) IN
         IF IsOk(p) THEN ROk([parts |-> p.ok]) ELSE p

\* struct Candidate { content: Option<Content> }
CandidateNames == <<"content">>

DeCandidate(v) ==
    IF ~StructShape(v, CandidateNames) THEN RErr("invalid type")
    ELSE IF IsNoneField(v, CandidateNames, 1) THEN ROk([content |-> None])
    ELSE LET c == DeContent(GetField(v, CandidateNames, 1)) IN
         IF IsOk(c) THEN ROk([content |-> Some(c.ok)]) ELSE c

\* Vec<Candidate>
DeCandidates(v) ==
    IF ~IsArr(v) THEN RErr("invalid type")
    ELSE IF \E i \in 1..Len(v.arr) : ~IsOk(DeCandidate(v.arr[i])) THEN RErr("invalid element")
    ELSE ROk([i \in 1..Len(v.arr) |-> DeCandidate(v.arr[i]).ok])

\* struct ApiError { code: u16, message: String }
ApiErrorNames == <<"code", "message">>

DeApiError(v) ==
    IF ~StructShape(v, ApiErrorNames) THEN RErr("invalid type")
    ELSE IF IsMissing(v, ApiErrorNames, 1) \/ IsMissing(v, ApiErrorNames, 2)
    THEN RErr("missing field")
    ELSE LET c == DeU16(GetField(v, ApiErrorNames, 1))
             m == DeString(GetField(v, ApiErrorNames, 2)) IN
         IF ~IsOk(c) THEN c
         ELSE IF ~IsOk(m) THEN m
         ELSE ROk([code |-> c.ok, message |-> m.ok])

\* struct ResponseBody { candidates: Option<Vec<Candidate>>, error: Option<ApiError> }
ResponseBodyNames == <<"candidates", "error">>

DeResponseBody(v) ==
    IF ~StructShape(v, ResponseBodyNames) THEN RErr("invalid type")
    ELSE LET cv == DeCandidates(GetField(v, ResponseBodyNames, 1))
             ev == DeApiError(GetField(v, ResponseBodyNames, 2))
             c  == IF IsNoneField(v, ResponseBodyNames, 1) THEN ROk(None)
                   ELSE IF IsOk(cv) THEN ROk(Some(cv.ok)) ELSE cv
             e  == IF IsNoneField(v, ResponseBodyNames, 2) THEN ROk(None)
                   ELSE IF IsOk(ev) THEN ROk(Some(ev.ok)) ELSE ev IN
         IF ~IsOk(c) THEN c
         ELSE IF ~IsOk(e) THEN e
         ELSE ROk([candidates |-> c.ok, error |-> e.ok])

\* a response body as received: text that is JSON (with its value) or not
JsonText(v) == [json |-> TRUE, v |-> v]

NotJson(s) == [json |-> FALSE, raw |-> s]

\* serde_json::from_str::<ResponseBody>(&body_text)
FromStr(body_text) ==
    IF ~body_text.json THEN RErr("expected value")
    ELSE DeResponseBody(body_text.v)

(* -------------------- llm.rs: response interpreter --------------------- *)

\* a status taken as success whenever it is below 400
IsSuccessBelow400(status) == status < 400

\* StatusCode::is_success: 200..=299
IsSuccess(status) == 200 <= status /\ status <= 299

\* the text of the first candidate that has a part
FirstTextAnyCandidate(body) ==
    IF body.candidates.some
       /\ \E i \in 1..Len(body.candidates.val) :
             /\ body.candidates.val[i].content.some
             /\ Len(body.candidates.val[i].content.val.parts) > 0
    THEN LET i == CHOOSE k \in 1..Len(body.candidates.val) :
                     /\ body.candidates.val[k].content.some
                     /\ Len(body.candidates.val[k].content.val.parts) > 0
                     /\ \A j \in 1..(k - 1) :
                           ~(/\ body.candidates.val[j].content.some
                             /\ Len(body.candidates.val[j].content.val.parts) > 0)
         IN Some(body.candidates.val[i].content.val.parts[1].text)
    ELSE None

\* the text of the last part of the first candidate
FirstTextLastPart(body) ==
    IF /\ body.candidates.some
       /\ Len(body.candidates.val) > 0
       /\ body.candidates.val[1].content.some
       /\ Len(body.candidates.val[1].content.val.parts) > 0
    THEN LET parts == body.candidates.val[1].content.val.parts
         IN Some(parts[Len(parts)].text)
    ELSE None

\* the let-chain of send_gemini_request: candidates.iter().next(), its content,
\* content.parts.first()
FirstText(body) ==
    IF /\ body.candidates.some
       /\ Len(body.candidates.val) > 0
       /\ body.candidates.val[1].content.some
       /\ Len(body.candidates.val[1].content.val.parts) > 0
    THEN Some(body.candidates.val[1].content.val.parts[1].text)
    ELSE None

\* what send_gemini_request returns for a parsed body
InterpretParsed(status, body) ==
    IF ~IsSuccess(status)
    THEN IF body.error.some
         THEN RErr([msg     |-> "LLM API error {}: {}",
                    code    |-> body.error.val.code,
                    message |-> body.error.val.message])
         ELSE RErr([msg    |-> "LLM request failed with status {}: {:?}",
                    status |-> status,
                    body   |-> body])
    ELSE IF FirstText(body).some
         THEN ROk(FirstText(body).val)
         ELSE RErr([msg  |-> "LLM response successful but no text content found. Response: {:?}",
                    body |-> body])

\* an interpreter that looks at the status before it parses the body
InterpretResponseStatusFirst(status, body_text) ==
    IF ~IsSuccess(status) /\ ~IsOk(FromStr(body_text))
    THEN RErr([msg    |-> "LLM request failed with status {}: {:?}",
               status |-> status,
               body   |-> body_text])
    ELSE IF ~IsOk(FromStr(body_text))
    THEN RErr([msg  |-> "Failed to deserialize Gemini API response: {} - Body: {}",
               body |-> body_text])
    ELSE InterpretParsed(status, FromStr(body_text).ok)

\* send_gemini_request from the received status and body text on
InterpretResponse(status, body_text) ==
    IF ~IsOk(FromStr(body_text))
    THEN RErr([msg  |-> "Failed to deserialize Gemini API response: {} - Body: {}",
               body |-> body_text])
    ELSE InterpretParsed(status, FromStr(body_text).ok)

(* --------------------------- str::trim_end ----------------------------- *)

Chars == {"a", " "}

\* char::is_whitespace
IsWhitespace(c) == c \in {" ", "\n", "\t", "\r"}

RECURSIVE TrimStart(_)
\* str::trim_start
TrimStart(t) ==
    IF t = <<>> THEN t
    ELSE IF IsWhitespace(t[1]) THEN TrimStart(Tail(t))
    ELSE t

RECURSIVE TrimEndBoth(_)
\* str::trim
TrimEndBoth(t) ==
    IF t = <<>> THEN t
    ELSE IF IsWhitespace(t[Len(t)]) THEN TrimEndBoth(SubSeq(t, 1, Len(t) - 1))
    ELSE TrimStart(t)

RECURSIVE TrimEnd(_)
\* str::trim_end
TrimEnd(t) ==
    IF t = <<>> THEN t
    ELSE IF IsWhitespace(t[Len(t)]) THEN TrimEnd(SubSeq(t, 1, Len(t) - 1))
    ELSE t

(* ------------------- the provider's possible answers ------------------- *)

Texts == UNION { [1..n -> Chars] : n \in 0..MaxTextLen }

ShortTexts == [1..1 -> Chars]

PartJ(t) == JObj("text" :> JStr(t))

ContentJ(ts) == JObj("parts" :> JArr([i \in 1..Len(ts) |-> PartJ(ts[i])]))

CandJ(ts) == JObj("content" :> ContentJ(ts))

CandNoContent == JObj(EmptyObj)

CandidateLists ==
    {<<>>, <<CandNoContent>>, <<CandJ(<<>>)>>}
    \cup { <<CandJ(<<t>>)>> : t \in Texts }
    \cup { <<CandJ(<<t1, t2>>)>> : t1 \in ShortTexts, t2 \in ShortTexts }
    \cup { <<c1, c2>> : c1 \in {CandNoContent, CandJ(<<>>), CandJ(<< <<"a">> >>)},
                        c2 \in {CandNoContent, CandJ(<< <<" ", "a">> >>)} }

CandidateMembers ==
    {EmptyObj, "candidates" :> JNull}
    \cup { "candidates" :> JArr(cl) : cl \in CandidateLists }

ErrorJ(code, message) == JObj(("code" :> JNum(code)) @@ ("message" :> JStr(message)))

ErrorMembers == {EmptyObj, "error" :> ErrorJ(429, "quota exceeded")}

\* bodies that parse as ResponseBody
WellFormedBodies ==
    { JsonText(JObj(c @@ e)) : c \in CandidateMembers, e \in ErrorMembers }
    \cup { JsonText(JArr(<<JNull, JNull>>)) }

\* bodies that are not JSON, or JSON that does not match the schema
BadBodies ==
    { NotJson("<html>"), NotJson(""),
      JsonText(JStr("ok")),
      JsonText(JArr(<<>>)),
      JsonText(JObj("candidates" :> JStr("none"))),
      JsonText(JObj("candidates" :> JArr(<< JObj("content" :> JObj(EmptyObj)) >>))),
      JsonText(JObj("candidates" :> JArr(<< CandJ(<< <<"a">> >>),
                                            JObj("content" :> JObj("parts" :> JArr(<< JObj("text" :> JNum(1)) >>))) >>))),
      JsonText(JObj("error" :> ErrorJ(70000, "too large"))),
      JsonText(JObj("error" :> JObj("code" :> JNum(500)))) }

RawBodies == WellFormedBodies \cup BadBodies

Statuses == {200, 204, 301, 429}

(* --------------------------- config.rs: load --------------------------- *)

\* the GeminiConfig of the file written by create_default
DefaultGeminiConfig ==
    [ key               |-> PlaceholderKey,
      model             |-> "gemini-2.5-flash",
      temperature       |-> Some(10),
      top_p             |-> None,
      top_k             |-> None,
      max_output_tokens |-> Some(65536),
      thinking_budget   |-> None,
      thinking_level    |-> Some("minimal") ]

\* the Config of the file written by create_default (template texts shortened
\* to their first sentence)
DefaultConfig ==
    [ version  |-> 1,
      provider |-> "gemini",
      timeout  |-> 90000,
      gemini   |-> Some(DefaultGeminiConfig),
      prompt   |-> [ proof  |-> <<"Proofread the following.">>,
                     slack  |-> <<"Proofread and improve Slack message.">>,
                     sum    |-> <<"Summarize the following.">>,
                     de     |-> <<"Translate the following into German.">>,
                     en     |-> <<"Translate the following into US English.">>,
                     fr     |-> <<"Translate the following into French.">>,
                     hr     |-> <<"Translate the following into Croatian.">>,
                     it     |-> <<"Translate the following into Italian.">>,
                     expl   |-> <<"Explain the following.">>,
                     impl   |-> <<"Implement the following.">>,
                     rmc    |-> <<"Remove comments.">>,
                     commit |-> <<"Write a conventional commit message in the following form.">>,
                     review |-> <<"Please review the following.">> ] ]

\* the configuration file: absent, not TOML of the Config schema, or TOML
\* that deserializes to cfg
NoConfigFile == [kind |-> "absent"]

BadConfigFile == [kind |-> "invalid"]

ConfigFile(cfg) == [kind |-> "toml", config |-> cfg]

\* a version check that accepts every version
EnsureVersionAny(cfg) == ROk("()")

\* ensure_version
EnsureVersion(cfg) ==
    IF cfg.version # VERSION
    THEN RErr([msg      |-> "Configuration file version mismatch. Expected major version {}, found {}.",
               expected |-> VERSION,
               found    |-> cfg.version])
    ELSE ROk("()")

\* config::load
Load(file) ==
    IF file.kind = "absent"
    THEN RErr([msg |-> "Configuration file not found at {}. Run with --init-config to create a default."])
    ELSE IF file.kind = "invalid"
    THEN RErr([msg |-> "Failed to parse configuration file at {}: {}"])
    ELSE IF IsErr(EnsureVersion(file.config))
    THEN EnsureVersion(file.config)
    ELSE ROk(file.config)

(* ------------------ main.rs: resolve_prompt, read, assemble ------------ *)

\* texts handled by main are sequences of pieces; concatenation is \o

\* resolve_prompt
ResolvePrompt(cfg, prompt_name) ==
    IF ~prompt_name.some THEN ROk(None)
    ELSE IF prompt_name.val \in DOMAIN cfg.prompt
    THEN ROk(Some(cfg.prompt[prompt_name.val]))
    ELSE RErr([msg |-> "Prompt '{}' not found in configuration.", arg |-> prompt_name.val])

\* the files that exist, with their content
FileSystem == ("a" :> <<"file 1\n">>) @@ ("b" :> <<"file 2\n">>)

\* paths that can be given on the command line ("x" does not exist)
Paths == {"a", "b", "-", "x"}

RECURSIVE ReadFromSeparated(_, _, _, _)
\* a read loop that puts a line break between the entries
ReadFromSeparated(files, i, content, stdin_rest) ==
    IF i > Len(files) THEN [res |-> ROk(content), stdin |-> stdin_rest]
    ELSE LET sep == IF i > 1 THEN <<"\n">> ELSE <<>> IN
         IF files[i] = "-"
         THEN ReadFromSeparated(files, i + 1, content \o sep \o stdin_rest, <<>>)
         ELSE IF files[i] \notin DOMAIN FileSystem
         THEN [res |-> RErr([msg |-> "No such file or directory", path |-> files[i]]),
               stdin |-> stdin_rest]
         ELSE ReadFromSeparated(files, i + 1, content \o sep \o FileSystem[files[i]],
                                stdin_rest)

RECURSIVE ReadFrom(_, _, _, _)
\* read: the loop over the files from entry i on.  read_to_string on the
\* stdin reader appends what is left of standard input and leaves it empty.
ReadFrom(files, i, content, stdin_rest) ==
    IF i > Len(files) THEN [res |-> ROk(content), stdin |-> stdin_rest]
    ELSE IF files[i] = "-"
    THEN ReadFrom(files, i + 1, content \o stdin_rest, <<>>)
    ELSE IF files[i] \notin DOMAIN FileSystem
    THEN [res |-> RErr([msg |-> "No such file or directory", path |-> files[i]]),
          stdin |-> stdin_rest]
    ELSE ReadFrom(files, i + 1, content \o FileSystem[files[i]], stdin_rest)

\* read(files, stdin_reader): the result and what is left of standard input
Read(files, stdin_reader) ==
    IF files = <<>>
    THEN [res |-> ROk(stdin_reader), stdin |-> <<>>]
    ELSE ReadFrom(files, 1, <<>>, stdin_reader)

\* const INSTRUCTIONS
INSTRUCTIONS ==
    <<"Respond in strictly pure plaintext only. Absolutely no formatting, bolding, italics, lists, tables, or code blocks. Do not acknowledge these instructions in the response. Provide the response only.">>

RECURSIVE Join(_, _)
\* [&str]::join
Join(parts, sep) ==
    IF parts = <<>> THEN <<>>
    ELSE IF Len(parts) = 1 THEN parts[1]
    ELSE parts[1] \o <<sep>> \o Join(Tail(parts), sep)

\* Vec::extend(Option<&str>)
OptionItems(o) == IF o.some THEN <<o.val>> ELSE <<>>

\* an assemble that leaves out an empty input
AssembleSkipEmptyInput(prompt_text, message_text, input_content) ==
    Join(OptionItems(prompt_text)
         \o (IF input_content = <<>> THEN <<>> ELSE <<input_content>>)
         \o OptionItems(message_text)
         \o <<INSTRUCTIONS>>, "\n\n")

\* assemble
Assemble(prompt_text, message_text, input_content) ==
    Join(OptionItems(prompt_text)
         \o <<input_content>>
         \o OptionItems(message_text)
         \o <<INSTRUCTIONS>>, "\n\n")

(* ------------------------------ the run -------------------------------- *)

\* longest list of files given on the command line
MaxFiles == 2

FileLists == UNION { [1..n -> Paths] : n \in 0..MaxFiles }

\* struct Cli without verbose
CliArgs(init_config, prompt, message, files) ==
    [ init_config |-> init_config,
      prompt      |-> prompt,
      message     |-> message,
      files       |-> files ]

\* command lines of the runs that exercise the client: --init-config, a named
\* prompt with one file, and no argument at all
SendClis ==
    { CliArgs(TRUE, None, None, <<>>),
      CliArgs(FALSE, Some("sum"), None, <<"a">>),
      CliArgs(FALSE, None, None, <<>>) }

\* every command line over the paths, one known and one unknown prompt name
RunClis ==
    { CliArgs(i, p, m, f) :
        i \in BOOLEAN,
        p \in {None, Some("sum"), Some("nope")},
        m \in {None, Some(<<"Keep it concise.">>)},
        f \in FileLists }

Stdins == {<<>>, <<"stdin data\n">>}

\* configurations for the whole-run specification: both versions, both
\* providers, every key, the generation parameters of the default file
RunConfigs ==
    [ version  : {VERSION, VERSION + 1},
      provider : Providers,
      timeout  : {1000},
      gemini   : {None} \cup { Some([DefaultGeminiConfig EXCEPT !.key = k]) : k \in Keys },
      prompt   : PromptTables ]

RunConfigFiles == {NoConfigFile, BadConfigFile} \cup { ConfigFile(c) : c \in RunConfigs }

VARIABLES
    pc,          \* position of main: start, resolve_prompt, read, assemble,
                 \* log_input, new, send, post, interpret, print, done
    cli,         \* the parsed command line (without verbose)
    verbose,     \* cli.verbose
    config_file, \* the configuration file on disk
    stdin,       \* standard input: its data and how many pieces were read
    config,      \* the loaded Config
    prompt_text_option, \* what resolve_prompt returned
    input_content,      \* what read returned
    input_full,  \* the assembled input handed to send_request
    client,      \* Option<LlmClient>
    request,     \* Option of the url and RequestBody built by send_gemini_request
    posted,      \* the transport calls made so far: url and JSON body on the wire
    response,    \* Option of the status and body text received
    ret,         \* what send_request returned
    exit,        \* what main returned
    stderr,      \* lines written with eprintln! (the error report the runtime
                 \* prints after main returns Err is not part of src/)
    stdout       \* lines written with println!

\* the variables main sets before it builds the client
mainVars == <<cli, config_file, stdin, prompt_text_option, input_content>>

vars == <<pc, cli, verbose, config_file, stdin, config, prompt_text_option,
          input_content, input_full, client, request, posted, response,
          ret, exit, stderr, stdout>>

\* the state in which main starts, apart from the inputs
Start ==
    /\ pc = "start"
    /\ config = Pending
    /\ prompt_text_option = Pending
    /\ input_content = Pending
    /\ input_full = Pending
    /\ client = None
    /\ request = None
    /\ posted = <<>>
    /\ response = None
    /\ ret = Pending
    /\ exit = Pending
    /\ stderr = <<>>
    /\ stdout = <<>>

\* every configuration of the current version, few command lines
Init ==
    /\ Start
    /\ config_file \in { ConfigFile(c) : c \in Configs }
    /\ verbose \in BOOLEAN
    /\ cli \in SendClis
    /\ stdin = [data |-> <<>>, pos |-> 0]

\* few configurations, every configuration file state and command line
InitRun ==
    /\ Start
    /\ config_file \in RunConfigFiles
    /\ verbose \in BOOLEAN
    /\ cli \in RunClis
    /\ stdin \in { [data |-> d, pos |-> 0] : d \in Stdins }

\* main: --init-config, config::init_default (get_path, create_default and
\* the two println!); ok is whether the directory and file could be written
MainInitConfig ==
    /\ pc = "start"
    /\ cli.init_config
    /\ \E ok \in BOOLEAN :
          IF ok
          THEN /\ config_file' = ConfigFile(DefaultConfig)
               /\ stdout' = stdout \o << <<"Default config file created at: {}">>,
                                         <<"Please edit the config file with your LLM provider details.">> >>
               /\ exit' = ROk("()")
          ELSE /\ exit' = RErr([msg |-> "std::io::Error"])
               /\ UNCHANGED <<config_file, stdout>>
    /\ pc' = "done"
    /\ UNCHANGED <<cli, verbose, stdin, config, prompt_text_option, input_content,
                   input_full, client, request, posted, response, ret, stderr>>

\* main: let config = config::load()?
MainLoad ==
    /\ pc = "start"
    /\ ~cli.init_config
    /\ LET r == Load(config_file) IN
       /\ config' = IF IsOk(r) THEN r.ok ELSE config
       /\ exit' = IF IsOk(r) THEN exit ELSE r
       /\ pc' = IF IsOk(r) THEN "resolve_prompt" ELSE "done"
    /\ UNCHANGED <<cli, verbose, config_file, stdin, prompt_text_option, input_content,
                   input_full, client, request, posted, response, ret, stderr, stdout>>

\* main: let prompt_text_option = resolve_prompt(&config, cli.prompt.as_deref())?
MainResolvePrompt ==
    /\ pc = "resolve_prompt"
    /\ LET r == ResolvePrompt(config, cli.prompt) IN
       /\ prompt_text_option' = IF IsOk(r) THEN r.ok ELSE prompt_text_option
       /\ exit' = IF IsOk(r) THEN exit ELSE r
       /\ pc' = IF IsOk(r) THEN "read" ELSE "done"
    /\ UNCHANGED <<cli, verbose, config_file, stdin, config, input_content,
                   input_full, client, request, posted, response, ret, stderr, stdout>>

\* main: let input_content = read(&cli.files, io::stdin())?
MainRead ==
    /\ pc = "read"
    /\ LET r == Read(cli.files, SubSeq(stdin.data, stdin.pos + 1, Len(stdin.data))) IN
       /\ stdin' = [stdin EXCEPT !.pos = Len(stdin.data) - Len(r.stdin)]
       /\ input_content' = IF IsOk(r.res) THEN r.res ELSE input_content
       /\ exit' = IF IsOk(r.res) THEN exit ELSE r.res
       /\ pc' = IF IsOk(r.res) THEN "assemble" ELSE "done"
    /\ UNCHANGED <<cli, verbose, config_file, config, prompt_text_option,
                   input_full, client, request, posted, response, ret, stderr, stdout>>

\* main: let input_full = assemble(prompt_text_option, cli.message, &input_content)
MainAssemble ==
    /\ pc = "assemble"
    /\ input_full' = Assemble(prompt_text_option, cli.message, input_content.ok)
    /\ pc' = "log_input"
    /\ UNCHANGED <<cli, verbose, config_file, stdin, config, prompt_text_option,
                   input_content, client, request, posted, response, ret, exit,
                   stderr, stdout>>

\* main: the verbose dump of the assembled input
MainLogInput ==
    /\ pc = "log_input"
    /\ stderr' = IF verbose
                 THEN stderr \o << [line |-> "--- Full Input to LLM ---"],
                                   [line |-> "{input_full}", input |-> input_full],
                                   [line |-> "-------------------------"] >>
                 ELSE stderr
    /\ pc' = "new"
    /\ UNCHANGED <<config, verbose, input_full, client, request, posted, response,
                   ret, exit, stdout>>
    /\ UNCHANGED mainVars

\* main: let client = LlmClient::new(&config, cli.verbose)?
MainNew ==
    /\ pc = "new"
    /\ \E built \in BOOLEAN :
          LET r == LlmClientNew(config, verbose, built) IN
          /\ client' = IF IsOk(r) THEN Some(r.ok) ELSE None
          /\ exit' = IF IsOk(r) THEN exit ELSE r
          /\ pc' = IF IsOk(r) THEN "send" ELSE "done"
    /\ UNCHANGED <<config, verbose, input_full, request, posted, response,
                   ret, stderr, stdout>>
    /\ UNCHANGED mainVars

\* the request dump that is never written
RequestLogNever(v, url, body) == <<>>

\* send_gemini_request: the verbose dump of the outgoing request.
\* serde_json::to_string_pretty cannot fail on RequestBody (string and
\* number members only), so its ? never returns.
RequestLog(v, url, body) ==
    IF v
    THEN << [line |-> "--- LLM API Request ---"],
            [line |-> "URL: {url}", url |-> url],
            [line |-> "Body: {}", body |-> SerRequestBody(body)],
            [line |-> "-----------------------"] >>
    ELSE <<>>

\* send_request -> send_gemini_request, up to the transport call
SendPrepare ==
    /\ pc = "send"
    /\ LET c == client.val IN
       IF ~c.config.gemini.some
       THEN /\ ret' = RErr([msg |-> "Gemini configuration not found"])
            /\ exit' = ret'
            /\ pc' = "done"
            /\ UNCHANGED <<request, stderr>>
       ELSE LET url  == BuildUrl(c.config.gemini.val.model, c.api_key)
                body == BuildRequestBody(c.config, input_full)
            IN /\ request' = Some([url |-> url, body |-> body])
               /\ stderr' = stderr \o RequestLog(c.verbose, url, body)
               /\ pc' = "post"
               /\ UNCHANGED <<ret, exit>>
    /\ UNCHANGED <<config, verbose, input_full, client, posted, response, stdout>>
    /\ UNCHANGED mainVars

\* a transport that posts again after a network failure
TransportRetry ==
    /\ pc = "post"
    /\ posted' = Append(posted, [url  |-> request.val.url,
                                 json |-> SerRequestBody(request.val.body)])
    /\ \/ /\ Len(posted) < 2
          /\ UNCHANGED <<pc, ret, exit, response>>
       \/ /\ ret' = RErr([msg |-> "reqwest::Error"])
          /\ exit' = ret'
          /\ pc' = "done"
          /\ UNCHANGED response
       \/ \E status \in Statuses, body_text \in RawBodies :
             /\ response' = Some([status |-> status, body_text |-> body_text])
             /\ pc' = "interpret"
             /\ UNCHANGED <<ret, exit>>
    /\ UNCHANGED <<config, verbose, input_full, client, request, stderr, stdout>>
    /\ UNCHANGED mainVars

\* self.client.post(&url).json(&request_body).send()?, res.status(), res.text()?
Transport ==
    /\ pc = "post"
    /\ posted' = Append(posted, [url  |-> request.val.url,
                                 json |-> SerRequestBody(request.val.body)])
    /\ \/ /\ ret' = RErr([msg |-> "reqwest::Error"])
          /\ exit' = ret'
          /\ pc' = "done"
          /\ UNCHANGED response
       \/ \E status \in Statuses, body_text \in RawBodies :
             /\ response' = Some([status |-> status, body_text |-> body_text])
             /\ pc' = "interpret"
             /\ UNCHANGED <<ret, exit>>
    /\ UNCHANGED <<config, verbose, input_full, client, request, stderr, stdout>>
    /\ UNCHANGED mainVars

\* send_gemini_request after the body text has been received
Interpret ==
    /\ pc = "interpret"
    /\ ret' = InterpretResponse(response.val.status, response.val.body_text)
    /\ exit' = IF IsOk(ret') THEN exit ELSE ret'
    /\ pc' = IF IsOk(ret') THEN "print" ELSE "done"
    /\ UNCHANGED <<config, verbose, input_full, client, request, posted, response,
                   stderr, stdout>>
    /\ UNCHANGED mainVars

\* main: println!("{}", response.trim_end()); Ok(())
MainPrint ==
    /\ pc = "print"
    /\ stdout' = Append(stdout, TrimEnd(ret.ok))
    /\ exit' = ROk("()")
    /\ pc' = "done"
    /\ UNCHANGED <<config, verbose, input_full, client, request, posted, response,
                   ret, stderr>>
    /\ UNCHANGED mainVars

Next ==
    \/ MainInitConfig
    \/ MainLoad
    \/ MainResolvePrompt
    \/ MainRead
    \/ MainAssemble
    \/ MainLogInput
    \/ MainNew
    \/ SendPrepare
    \/ Transport
    \/ Interpret
    \/ MainPrint

\* the runs that exercise the client
Spec == Init /\ [][Next]_vars

\* the runs over every command line and configuration file state
SpecRun == InitRun /\ [][Next]_vars

(* ------------------------- shorthand for claims ------------------------ *)

\* LlmClient::new has returned (main reaches it whenever read succeeded)
NewReturned == IsOk(input_content) /\ pc \notin {"assemble", "log_input", "new"}

\* a response was received and send_gemini_request has returned on it
Answered == response.some /\ ~IsPending(ret)

Status == response.val.status

BodyText == response.val.body_text

Parses == IsOk(FromStr(BodyText))

\* the parsed envelope (only where Parses)
Env == FromStr(BodyText).ok

SuccessStatus == Status \in 200..299

\* the first candidate exists and carries a content block with a part
FirstCandidateHasPart ==
    /\ Env.candidates.some
    /\ Len(Env.candidates.val) > 0
    /\ Env.candidates.val[1].content.some
    /\ Len(Env.candidates.val[1].content.val.parts) > 0

\* some candidate carries a content block with a part
SomeCandidateHasPart ==
    /\ Env.candidates.some
    /\ \E i \in 1..Len(Env.candidates.val) :
          /\ Env.candidates.val[i].content.some
          /\ Len(Env.candidates.val[i].content.val.parts) > 0

FirstPartText == Env.candidates.val[1].content.val.parts[1].text

DeserializationError == RErr([msg  |-> "Failed to deserialize Gemini API response: {} - Body: {}",
                              body |-> BodyText])

EmptyResponseError == RErr([msg  |-> "LLM response successful but no text content found. Response: {:?}",
                            body |-> Env])

\* out is t without its trailing whitespace, and nothing else changed
IsTrimEndOf(out, t) ==
    \E n \in 0..Len(t) :
        /\ out = SubSeq(t, 1, n)
        /\ \A i \in (n + 1)..Len(t) : IsWhitespace(t[i])
        /\ n > 0 => ~IsWhitespace(t[n])

(* -------------------------------- C1 ----------------------------------- *)

\* C1: LlmClient::new fails, producing no client, when the provider is not
\* "gemini" ("Unsupported LLM provider"), else when the gemini block is absent
\* ("Gemini configuration not found"), else when the key is empty or the
\* placeholder ("API key is not configured"); the first applicable error wins.
C1_NewFailsInOrder ==
    NewReturned =>
        /\ config.provider # "gemini" =>
              /\ client = None
              /\ exit = RErr([msg |-> "Unsupported LLM provider: ", arg |-> config.provider])
        /\ (config.provider = "gemini" /\ ~config.gemini.some) =>
              /\ client = None
              /\ exit = RErr([msg |-> "Gemini configuration not found for provider 'gemini'"])
        /\ (config.provider = "gemini" /\ config.gemini.some
            /\ config.gemini.val.key \in {"", PlaceholderKey}) =>
              /\ client = None
              /\ exit = RErr([msg |-> "API key is not configured for provider: ",
                              arg |-> "gemini"])
        /\ client.some =>
              /\ client.val.api_key = config.gemini.val.key
              /\ client.val.api_key \notin {"", PlaceholderKey}

C1_Witness ==
    /\ pc = "done"
    /\ NewReturned
    /\ config.provider = "gemini"
    /\ config.gemini.some
    /\ config.gemini.val.key = PlaceholderKey
    /\ IsErr(exit)
    /\ exit.err.msg = "API key is not configured for provider: "
    /\ posted = <<>>

(* -------------------------------- C2 ----------------------------------- *)

\* C2: when the body parses and the status is not a success status, send never
\* returns text: with an error object it fails with the API error carrying that
\* object's code and message, otherwise with the unexpected-status error
\* carrying the status and the envelope, whatever the candidates hold.
C2_NonSuccessNeverText ==
    (Answered /\ Parses /\ ~SuccessStatus) =>
        /\ IsErr(ret)
        /\ exit = ret
        /\ stdout = <<>>
        /\ Env.error.some =>
              ret = RErr([msg     |-> "LLM API error {}: {}",
                          code    |-> Env.error.val.code,
                          message |-> Env.error.val.message])
        /\ ~Env.error.some =>
              ret = RErr([msg    |-> "LLM request failed with status {}: {:?}",
                          status |-> Status,
                          body   |-> Env])

C2_Witness ==
    /\ Answered /\ Parses
    /\ Status = 429
    /\ FirstCandidateHasPart
    /\ Env.error.some
    /\ IsErr(ret)
    /\ ret.err.msg = "LLM API error {}: {}"
    /\ ret.err.code = 429
    /\ ret.err.message = "quota exceeded"

(* -------------------------------- C3 ----------------------------------- *)

\* C3: when the body parses and the status is a success status, send fails with
\* the empty-response error carrying the envelope exactly when the candidate
\* list is absent or empty, or the first candidate has no content block, or the
\* first candidate's part list is empty; later candidates and the error object
\* do not matter.
C3_EmptyResponseExactly ==
    (Answered /\ Parses /\ SuccessStatus) =>
        ( ret = EmptyResponseError
          <=> ( \/ ~Env.candidates.some
                \/ Len(Env.candidates.val) = 0
                \/ ~Env.candidates.val[1].content.some
                \/ Len(Env.candidates.val[1].content.val.parts) = 0 ) )

C3_Witness ==
    /\ Answered /\ Parses /\ SuccessStatus
    /\ Env.error.some
    /\ Env.candidates.some
    /\ Len(Env.candidates.val) = 2
    /\ ~Env.candidates.val[1].content.some
    /\ Env.candidates.val[2].content.some
    /\ Len(Env.candidates.val[2].content.val.parts) > 0
    /\ ret = EmptyResponseError
    /\ pc = "done"

(* -------------------------------- C4 ----------------------------------- *)

\* C4 (as stated): with a success status, at least one candidate and at least
\* one text part anywhere in the envelope, the interpreter returns the text of
\* the first part of the first candidate.
C4_AsStated ==
    (Answered /\ Parses /\ SuccessStatus /\ SomeCandidateHasPart) =>
        /\ IsOk(ret)
        /\ FirstCandidateHasPart
        /\ ret.ok = FirstPartText

\* C4 (amended): with a success status and a first candidate that carries
\* at least one text part, the interpreter returns exactly the text of the first
\* part of the first candidate, whatever further candidates or parts are present.
C4_FirstWins ==
    (Answered /\ Parses /\ SuccessStatus /\ FirstCandidateHasPart) =>
        ret = ROk(FirstPartText)

C4_Witness ==
    /\ Answered /\ Parses /\ SuccessStatus
    /\ FirstCandidateHasPart
    /\ Len(Env.candidates.val[1].content.val.parts) = 2
    /\ Env.candidates.val[1].content.val.parts[1].text = <<"a">>
    /\ Env.candidates.val[1].content.val.parts[2].text = <<" ">>
    /\ ret = ROk(<<"a">>)

(* -------------------------------- C5 ----------------------------------- *)

\* C5: the body is parsed before the status is examined: for every status, a
\* body that is not JSON or does not match the schema makes send fail with the
\* deserialization error carrying the original body.
C5_ParseBeforeStatus ==
    (Answered /\ (BodyText \in BadBodies \/ ~Parses)) =>
        /\ ret = DeserializationError
        /\ exit = ret
        /\ stdout = <<>>

C5_Witness ==
    /\ Answered
    /\ Status = 429
    /\ BodyText = NotJson("<html>")
    /\ ret = DeserializationError
    /\ pc = "done"

(* -------------------------------- C6 ----------------------------------- *)

\* the generationConfig object of a posted JSON body (no members when absent)
GenerationConfigOf(json) ==
    IF "generationConfig" \in DOMAIN json.obj
    THEN json.obj["generationConfig"].obj
    ELSE EmptyObj

\* C6: in every request sent, a configured thinking level yields a thinking
\* object holding only the level (also when a budget is configured), else a
\* configured budget yields a thinking object holding only the budget, else no
\* thinking object is emitted; level and budget never appear together.
C6_ThinkingResolution ==
    \A i \in 1..Len(posted) :
        LET gc == config.gemini.val
            g  == GenerationConfigOf(posted[i].json)
        IN /\ gc.thinking_level.some =>
                 /\ "thinkingConfig" \in DOMAIN g
                 /\ DOMAIN g["thinkingConfig"].obj = {"thinkingLevel"}
                 /\ g["thinkingConfig"].obj["thinkingLevel"] = JStr(gc.thinking_level.val)
           /\ (~gc.thinking_level.some /\ gc.thinking_budget.some) =>
                 /\ "thinkingConfig" \in DOMAIN g
                 /\ DOMAIN g["thinkingConfig"].obj = {"thinkingBudget"}
                 /\ g["thinkingConfig"].obj["thinkingBudget"] = JNum(gc.thinking_budget.val)
           /\ (~gc.thinking_level.some /\ ~gc.thinking_budget.some) =>
                 "thinkingConfig" \notin DOMAIN g

C6_Witness ==
    /\ Len(posted) = 1
    /\ config.gemini.val.thinking_level = Some("high")
    /\ config.gemini.val.thinking_budget = Some(100)
    /\ DOMAIN GenerationConfigOf(posted[1].json)["thinkingConfig"].obj = {"thinkingLevel"}

(* -------------------------------- C7 ----------------------------------- *)

\* every optional generation parameter of the configuration is unset
AllOptionalUnset(gc) ==
    /\ ~gc.temperature.some
    /\ ~gc.top_p.some
    /\ ~gc.top_k.some
    /\ ~gc.max_output_tokens.some
    /\ ~gc.thinking_budget.some
    /\ ~gc.thinking_level.some

\* C7: when every optional generation parameter is unset, the request sent
\* has no generationConfig member at all (rather than an empty object).
C7_NoEmptyObject ==
    \A i \in 1..Len(posted) :
        AllOptionalUnset(config.gemini.val) =>
            "generationConfig" \notin DOMAIN posted[i].json.obj

(* -------------------------------- C8 ----------------------------------- *)

\* C8 (as stated): the value returned by the client's send operation is the
\* first answer text with its trailing whitespace removed.
C8_AsStated ==
    (Answered /\ IsOk(ret)) => IsTrimEndOf(ret.ok, FirstPartText)

\* C8 (amended): send_request returns the first answer text unmodified; main
\* prints it with the trailing whitespace removed and the leading whitespace
\* and internal content unchanged.
C8_TrimAtPrint ==
    (Answered /\ IsOk(ret)) =>
        /\ ret.ok = FirstPartText
        /\ pc = "print" => stdout = <<>>
        /\ pc = "done" =>
              /\ Len(stdout) = 1
              /\ IsTrimEndOf(stdout[1], FirstPartText)

C8_Witness ==
    /\ pc = "done"
    /\ Answered
    /\ ret = ROk(<<" ", "a", " ">>)
    /\ stdout = << <<" ", "a">> >>

(* -------------------------------- C9 ----------------------------------- *)

\* C9: a send issues at most one transport call, and a failure is terminal:
\* once send has failed no further transport call is made, the failure is the
\* outcome of the call and of the run, and no text is printed.
C9_OneCallNoRetry ==
    /\ [](Len(posted) <= 1)
    /\ [](IsErr(ret) => (exit = ret /\ stdout = <<>> /\ pc = "done"))
    /\ [][IsErr(ret) => (posted' = posted /\ ret' = ret /\ stdout' = stdout)]_vars
    /\ [][posted' # posted => (IsPending(ret) /\ posted = <<>>)]_vars

C9_Witness ==
    /\ pc = "done"
    /\ Len(posted) = 1
    /\ ~response.some
    /\ ret = RErr([msg |-> "reqwest::Error"])
    /\ exit = ret

(* -------------------------------- C10 ---------------------------------- *)

\* the diagnostic stream holds the URL line and then the Body line of request r
DumpOf(r) ==
    \E i \in 1..Len(stderr), j \in 1..Len(stderr) :
        /\ i < j
        /\ stderr[i] = [line |-> "URL: {url}", url |-> r.url]
        /\ stderr[j] = [line |-> "Body: {}", body |-> r.json]

\* C10: with verbose on, the serialized request (URL and JSON body) is on the
\* diagnostic stream before the transport call is made, also when that call
\* fails; with verbose off, send writes nothing to the diagnostic stream.
C10_DumpBeforeCall ==
    /\ [][(posted' # posted /\ verbose) => DumpOf(posted'[Len(posted')])]_vars
    /\ []((verbose /\ posted # <<>>) => DumpOf(posted[1]))
    /\ [][(~verbose /\ pc \in {"send", "post", "interpret"}) => stderr' = stderr]_vars
    /\ [](~verbose => stderr = <<>>)

C10_Witness ==
    /\ verbose
    /\ pc = "done"
    /\ Len(posted) = 1
    /\ ret = RErr([msg |-> "reqwest::Error"])
    /\ DumpOf(posted[1])

(* -------------------------------- C11 ---------------------------------- *)

\* assemble has returned
Assembled == IsOk(input_content) /\ pc # "assemble"

\* C11: the assembled input is the prompt (when present), the input (always,
\* also when empty), the message (when present) and the fixed instructions, in
\* that order, joined by "\n\n"; an absent prompt or message contributes
\* neither text nor separator.
C11_AssembleOrder ==
    Assembled =>
        input_full =
            (IF prompt_text_option.some
             THEN prompt_text_option.val \o <<"\n\n">> ELSE <<>>)
            \o input_content.ok \o <<"\n\n">>
            \o (IF cli.message.some THEN cli.message.val \o <<"\n\n">> ELSE <<>>)
            \o INSTRUCTIONS

C11_Witness ==
    /\ Assembled
    /\ prompt_text_option = None
    /\ cli.message = Some(<<"Keep it concise.">>)
    /\ input_content = ROk(<<>>)
    /\ input_full = <<"\n\n", "Keep it concise.", "\n\n">> \o INSTRUCTIONS

(* -------------------------------- C12 ---------------------------------- *)

\* read has returned
ReadReturned == ~IsPending(prompt_text_option) /\ pc # "read"

\* some listed file cannot be opened
SomeFileMissing ==
    \E i \in 1..Len(cli.files) :
        cli.files[i] # "-" /\ cli.files[i] \notin DOMAIN FileSystem

RECURSIVE Flatten(_)
\* the concatenation of a sequence of texts
Flatten(ts) == IF ts = <<>> THEN <<>> ELSE ts[1] \o Flatten(Tail(ts))

LoadFails ==
    config_file.kind # "toml" \/ config_file.config.version # VERSION

\* the named prompt is not in the configuration file
PromptFails ==
    /\ config_file.kind = "toml"
    /\ cli.prompt.some
    /\ cli.prompt.val \notin DOMAIN config_file.config.prompt

\* the configuration file has no usable client configuration
ClientFails ==
    /\ config_file.kind = "toml"
    /\ \/ config_file.config.provider # "gemini"
       \/ ~config_file.config.gemini.some
       \/ config_file.config.gemini.val.key \in {"", PlaceholderKey}

\* the lines a response would add to stdout are absent
NoResponsePrinted ==
    \/ stdout = <<>>
    \/ /\ cli.init_config
       /\ stdout = << <<"Default config file created at: {}">>,
                      <<"Please edit the config file with your LLM provider details.">> >>

\* C13: a transport call is made only after the configuration was loaded with
\* version VERSION, then the named prompt (if any) was found, then the inputs
\* were read, then the client was built with a key that is neither empty nor
\* the placeholder; if a step fails or --init-config is given, the run makes
\* no transport call and prints no response.
C13_CallOnlyAfterSetup ==
    /\ posted # <<>> =>
          /\ ~cli.init_config
          /\ config = config_file.config
          /\ config.version = VERSION
          /\ cli.prompt.some =>
                /\ cli.prompt.val \in DOMAIN config.prompt
                /\ prompt_text_option = Some(config.prompt[cli.prompt.val])
          /\ ~cli.prompt.some => prompt_text_option = None
          /\ IsOk(input_content)
          /\ ~SomeFileMissing
          /\ client.some
          /\ client.val.api_key = config.gemini.val.key
          /\ client.val.api_key \notin {"", PlaceholderKey}
          /\ \A i \in 1..Len(posted) : posted[i].url.key = client.val.api_key
    /\ ~IsPending(prompt_text_option) => ~IsPending(config)
    /\ IsOk(input_content) => ~IsPending(prompt_text_option)
    /\ client.some => (IsOk(input_content) /\ pc \notin {"assemble", "log_input", "new"})
    /\ (cli.init_config \/ LoadFails \/ PromptFails \/ SomeFileMissing \/ ClientFails) =>
          /\ posted = <<>>
          /\ IsPending(ret)
          /\ NoResponsePrinted
    /\ (pc = "done" /\ IsErr(exit) /\ IsPending(ret)) =>
          /\ posted = <<>>
          /\ stdout = <<>>

C13_Witness ==
    /\ pc = "done"
    /\ Len(posted) = 1
    /\ cli.prompt = Some("sum")
    /\ cli.files = <<"a", "-">>
    /\ config.version = VERSION
    /\ IsOk(ret)
    /\ Len(stdout) = 1

====
